---------------------------- MODULE Spec2Model ----------------------------
(***************************************************************************)
(* lab02: a CEP (Brazilian postal code) to temperature pipeline made of    *)
(* two Go services.                                                        *)
(*   ServiceA (Edge Gateway, src/ServiceA/main.go): POST / with            *)
(*     {"cep": "..."}; validates, calls ServiceB, relays.                  *)
(*   ServiceB (Resolution Service, src/ServiceB/main.go): GET /{cep};      *)
(*     validates, calls the directory API, then the weather API, converts. *)
(*                                                                         *)
(* Time is counted in whole seconds from the instant the request reaches   *)
(* the stage that first serves it.  Every http.Client in the source has a  *)
(* Timeout of 10 seconds.                                                  *)
(***************************************************************************)
EXTENDS Integers, Sequences, FiniteSets, TLC

(***************************************************************************)
(* float64.  Go computes the temperatures in IEEE-754 binary64.  TLC's     *)
(* integers are 32 bits wide, so a significand is kept as a little-endian  *)
(* sequence of 14-bit limbs and a float64 is [neg, man, exp] standing for  *)
(* (-1)^neg * man * 2^exp, man odd (or zero).  The readings of this model  *)
(* stay far from the subnormal and overflow ranges, which are left out.    *)
(***************************************************************************)
LimbBits == 14
Base == 2^LimbBits
SignificandBits == 53

RECURSIVE BNorm(_)
BNorm(a) ==
    IF a = <<>> THEN <<>>
    ELSE IF a[Len(a)] = 0 THEN BNorm(SubSeq(a, 1, Len(a) - 1))
    ELSE a

RECURSIVE BFromInt(_)
BFromInt(n) == IF n = 0 THEN <<>> ELSE <<n % Base>> \o BFromInt(n \div Base)

RECURSIVE BAddC(_, _, _)
BAddC(a, b, carry) ==
    IF a = <<>> /\ b = <<>> THEN (IF carry = 0 THEN <<>> ELSE <<carry>>)
    ELSE LET x == IF a = <<>> THEN 0 ELSE Head(a)
             y == IF b = <<>> THEN 0 ELSE Head(b)
             s == x + y + carry
         IN  <<s % Base>> \o BAddC(IF a = <<>> THEN <<>> ELSE Tail(a),
                                   IF b = <<>> THEN <<>> ELSE Tail(b),
                                   s \div Base)

BAdd(a, b) == BAddC(a, b, 0)

\* a - b for a >= b
RECURSIVE BSubB(_, _, _)
BSubB(a, b, borrow) ==
    IF a = <<>> THEN <<>>
    ELSE LET y == IF b = <<>> THEN 0 ELSE Head(b)
             d == Head(a) - y - borrow
         IN  <<IF d < 0 THEN d + Base ELSE d>>
             \o BSubB(Tail(a), IF b = <<>> THEN <<>> ELSE Tail(b),
                      IF d < 0 THEN 1 ELSE 0)

BSub(a, b) == BNorm(BSubB(a, b, 0))

\* -1, 0, 1 as a < b, a = b, a > b (both normalised)
RECURSIVE BCmpFrom(_, _, _)
BCmpFrom(a, b, i) ==
    IF i = 0 THEN 0
    ELSE IF a[i] < b[i] THEN -1
    ELSE IF a[i] > b[i] THEN 1
    ELSE BCmpFrom(a, b, i - 1)

BCmp(a, b) ==
    IF Len(a) < Len(b) THEN -1
    ELSE IF Len(a) > Len(b) THEN 1
    ELSE BCmpFrom(a, b, Len(a))

\* a * k for 0 <= k < Base
RECURSIVE BMulSmallC(_, _, _)
BMulSmallC(a, k, carry) ==
    IF a = <<>> THEN (IF carry = 0 THEN <<>> ELSE <<carry>>)
    ELSE LET p == Head(a) * k + carry
         IN  <<p % Base>> \o BMulSmallC(Tail(a), k, p \div Base)

BMulSmall(a, k) == BNorm(BMulSmallC(a, k, 0))

RECURSIVE BMul(_, _)
BMul(a, b) ==
    IF a = <<>> \/ b = <<>> THEN <<>>
    ELSE BAdd(BMulSmall(b, Head(a)),
              LET rest == BMul(Tail(a), b)
              IN  IF rest = <<>> THEN <<>> ELSE <<0>> \o rest)

\* <<quotient limbs (most significant first), remainder>> of a / k, 0 < k < Base
RECURSIVE BDivSmallFrom(_, _, _, _)
BDivSmallFrom(a, k, i, rem) ==
    IF i = 0 THEN [quo |-> <<>>, rem |-> rem]
    ELSE LET cur  == rem * Base + a[i]
             rest == BDivSmallFrom(a, k, i - 1, cur % k)
         IN  [quo |-> rest.quo \o <<cur \div k>>, rem |-> rest.rem]

BDivSmall(a, k) ==
    LET r == BDivSmallFrom(a, k, Len(a), 0)
    IN  [quo |-> BNorm(r.quo), rem |-> r.rem]

RECURSIVE IntBitLen(_)
IntBitLen(n) == IF n = 0 THEN 0 ELSE 1 + IntBitLen(n \div 2)

BitLen(a) == IF a = <<>> THEN 0 ELSE LimbBits * (Len(a) - 1) + IntBitLen(a[Len(a)])

\* a * 2^n
BShl(a, n) ==
    IF a = <<>> THEN <<>>
    ELSE [i \in 1..(n \div LimbBits) |-> 0] \o BMulSmall(a, 2^(n % LimbBits))

\* floor(a / 2^n)
BShr(a, n) ==
    IF n \div LimbBits >= Len(a) THEN <<>>
    ELSE BDivSmall(SubSeq(a, (n \div LimbBits) + 1, Len(a)), 2^(n % LimbBits)).quo

BIsOdd(a) == a # <<>> /\ a[1] % 2 = 1

FZero == [neg |-> FALSE, man |-> <<>>, exp |-> 0]

\* the same value with an odd significand
RECURSIVE Canon(_, _, _)
Canon(neg, man, exp) ==
    IF man = <<>> THEN FZero
    ELSE IF man[1] = 0 THEN Canon(neg, Tail(man), exp + LimbBits)
    ELSE IF man[1] % 2 = 0 THEN Canon(neg, BShr(man, 1), exp + 1)
    ELSE [neg |-> neg, man |-> man, exp |-> exp]

\* man * 2^exp rounded to 53 significant bits, ties to even
RoundF(neg, man, exp) ==
    LET drop == BitLen(man) - SignificandBits
    IN  IF drop <= 0 THEN Canon(neg, man, exp)
        ELSE LET q    == BShr(man, drop)
                 r    == BSub(man, BShl(q, drop))
                 half == BShl(<<1>>, drop - 1)
                 c    == BCmp(r, half)
                 up   == c = 1 \/ (c = 0 /\ BIsOdd(q))
             IN  Canon(neg, IF up THEN BAdd(q, <<1>>) ELSE q, exp + drop)

\* the exact sum of two floats, as an unrounded [neg, man, exp]
ExactAdd(x, y) ==
    LET e  == IF x.exp < y.exp THEN x.exp ELSE y.exp
        xm == BShl(x.man, x.exp - e)
        ym == BShl(y.man, y.exp - e)
        c  == BCmp(xm, ym)
    IN  IF x.neg = y.neg THEN [neg |-> x.neg, man |-> BAdd(xm, ym), exp |-> e]
        ELSE IF c = 0 THEN FZero
        ELSE IF c = 1 THEN [neg |-> x.neg, man |-> BSub(xm, ym), exp |-> e]
        ELSE [neg |-> y.neg, man |-> BSub(ym, xm), exp |-> e]

ExactMul(x, y) ==
    IF x.man = <<>> \/ y.man = <<>> THEN FZero
    ELSE [neg |-> x.neg # y.neg, man |-> BMul(x.man, y.man), exp |-> x.exp + y.exp]

FAdd(x, y) == LET s == ExactAdd(x, y) IN RoundF(s.neg, s.man, s.exp)

FMul(x, y) == LET p == ExactMul(x, y) IN RoundF(p.neg, p.man, p.exp)

\* x*y + z with one rounding (a fused multiply-add)
FMA(x, y, z) == LET s == ExactAdd(ExactMul(x, y), z) IN RoundF(s.neg, s.man, s.exp)

GuardBits == 70

\* the float64 nearest to the decimal num/den (strconv.ParseFloat, and the
\* compiler's conversion of an untyped constant): den in 1..100
FromRatio(num, den) ==
    LET mag == IF num < 0 THEN -num ELSE num
        d   == BDivSmall(BShl(BFromInt(mag), GuardBits), den)
        n   == BAdd(BShl(d.quo, 1), IF d.rem = 0 THEN <<>> ELSE <<1>>)
    IN  RoundF(num < 0, n, -(GuardBits + 1))


(***************************************************************************)
(* CEP strings are sequences of Unicode code points, as Go's regexp sees   *)
(* them.                                                                   *)
(***************************************************************************)
CepDigits == 8

\* \d of Go's regexp (RE2): an ASCII digit, '0' (48) to '9' (57)
IsDigitClass(c) == c >= 48 /\ c <= 57

\* \d{n} from position i: the position after the match, 0 for no match
RECURSIVE MatchDigits(_, _, _)
MatchDigits(s, i, n) ==
    IF n = 0 THEN i
    ELSE IF i > Len(s) THEN 0
    ELSE IF IsDigitClass(s[i]) THEN MatchDigits(s, i + 1, n - 1)
    ELSE 0

\* regexp.MustCompile(`^\d{8}$`).MatchString(s): ^ is the start of the text,
\* $ (without the m flag) its very end
validCepRegexA_Unanchored(s) == MatchDigits(s, 1, CepDigits) # 0
validCepRegexA(s) == MatchDigits(s, 1, CepDigits) = Len(s) + 1

validCepRegexB_Unanchored(s) == MatchDigits(s, 1, CepDigits) # 0
validCepRegexB(s) == MatchDigits(s, 1, CepDigits) = Len(s) + 1

(***************************************************************************)
(* Inputs.                                                                 *)
(***************************************************************************)
MaxCepLen == 9

\* '-', '/', '0', '9', ':' and U+0660 (ARABIC-INDIC DIGIT ZERO)
Alphabet == {45, 47, 48, 57, 58, 1632}

Zeros(n) == [i \in 1..n |-> 48]

\* strings of '0' in which at most one position holds another character
CepInputs ==
    UNION { {Zeros(n)} \cup {[Zeros(n) EXCEPT ![p] = c] : p \in 1..n, c \in Alphabet}
            : n \in 0..MaxCepLen }

\* the body of POST /: what json.NewDecoder(r.Body).Decode(&data) is given
RequestBodies ==
    {[kind |-> k, cep |-> <<>>] : k \in {"malformed", "cep_not_string", "no_cep"}}
    \cup {[kind |-> "object", cep |-> s] : s \in CepInputs}

NoBody == [kind |-> "none", cep |-> <<>>]

NoRequest == [entry |-> "none", body |-> NoBody, path |-> <<>>]

\* a request to ServiceA (POST / on :8080) or straight to ServiceB (GET /{cep} on :8090)
EdgeRequests == {[entry |-> "edge", body |-> b, path |-> <<>>] : b \in RequestBodies}
DirectRequests == {[entry |-> "direct", body |-> NoBody, path |-> s] : s \in CepInputs}

\* json Decode into CepRequest: an error, or the Cep field ("" when absent)
Decode(body) ==
    IF body.kind \in {"malformed", "cep_not_string"}
    THEN [err |-> TRUE, Cep |-> <<>>]
    ELSE [err |-> FALSE, Cep |-> body.cep]

(***************************************************************************)
(* Upstream behaviour.                                                     *)
(***************************************************************************)
ClientTimeoutA == 10
ClientTimeoutCep == 10
ClientTimeoutWeather == 10

LatencyFast == 1
LatencySlow == 6
Latencies == {LatencyFast, LatencySlow}

NoOutcome == [kind |-> "none"]

\* bodies of the directory API (cep.awesomeapi.com.br), as CepAwesomeapiResponse sees them
DirUnparsable == [json |-> FALSE, cep |-> "", city |-> "", lat |-> "", lng |-> ""]
DirNotFound == [json |-> TRUE, cep |-> "", city |-> "", lat |-> "", lng |-> ""]
DirVitoria ==
    [json |-> TRUE, cep |-> "29902555", city |-> "Vitoria", lat |-> "-20.31", lng |-> "-40.33"]
DirSaoPaulo ==
    [json |-> TRUE, cep |-> "01001000", city |-> "Sao Paulo", lat |-> "-23.55", lng |-> "-46.63"]
DirBadLat == [json |-> TRUE, cep |-> "29902555", city |-> "Vitoria", lat |-> "", lng |-> "-40.33"]
DirBadLng ==
    [json |-> TRUE, cep |-> "29902555", city |-> "Vitoria", lat |-> "-20.31", lng |-> "abc"]
DirBodies == {DirUnparsable, DirNotFound, DirVitoria, DirSaoPaulo, DirBadLat, DirBadLng}

DirOutcomes ==
    {[kind |-> "error", cause |-> c] : c \in {"transport", "timeout"}}
    \cup {[kind |-> "response", status |-> s, body |-> b]
          : s \in {404, 500}, b \in {DirUnparsable, DirVitoria}}
    \cup {[kind |-> "response", status |-> 200, body |-> b] : b \in DirBodies}

\* temperatures the weather API reports, in tenths of a degree Celsius
Readings == {285, -50}

\* bodies of the weather API (api.open-meteo.com): unparsable, without a
\* "current" object, or with current.temperature_2m = t10/10
WeatherBodies ==
    {[json |-> FALSE, current |-> FALSE, t10 |-> 0],
     [json |-> TRUE, current |-> FALSE, t10 |-> 0]}
    \cup {[json |-> TRUE, current |-> TRUE, t10 |-> t] : t \in Readings}

WeatherOutcomes ==
    {[kind |-> "error", cause |-> c] : c \in {"transport", "timeout"}}
    \cup {[kind |-> "response", status |-> 500, body |-> b]
          : b \in {[json |-> FALSE, current |-> FALSE, t10 |-> 0],
                   [json |-> TRUE, current |-> TRUE, t10 |-> 285]}}
    \cup {[kind |-> "response", status |-> 200, body |-> b] : b \in WeatherBodies}

\* strconv.ParseFloat(s, 64) returns an error: among the coordinate strings
\* of this model, the empty string and "abc"
ParseFloatErr(s) == s \notin {"-20.31", "-40.33", "-23.55", "-46.63"}

(***************************************************************************)
(* HTTP responses.                                                         *)
(***************************************************************************)
ErrorBody(msg) == [kind |-> "error", error |-> msg]
TextBody(txt) == [kind |-> "text", text |-> txt]
JsonOther == [kind |-> "json_other"]
NoContent == [kind |-> "none"]

TemperatureBody(t) ==
    [kind |-> "temperature", city |-> t.city,
     temp_C |-> t.TempC, temp_F |-> t.TempF, temp_K |-> t.TempK]

ZeroTemperature == [city |-> "", TempC |-> FZero, TempF |-> FZero, TempK |-> FZero]

\* net/http sends no body with a 1xx, 204 or 304 status
BodyAllowed(status) == ~(status < 200 \/ status = 204 \/ status = 304)

\* w.WriteHeader(status); json.NewEncoder(w).Encode(body)
Respond(status, body) ==
    [status |-> status, body |-> IF BodyAllowed(status) THEN body ELSE NoContent]

InvalidZipcode == Respond(422, ErrorBody("invalid zipcode"))
ZipcodeNotFound == Respond(404, ErrorBody("can not find zipcode"))

\* what a server at SERVICE_B_URL other than HandlerCep (a reverse proxy, a
\* router's own error page) may answer
PeerResponses ==
    {[status |-> s, body |-> b]
        : s \in {200, 404, 503},
          b \in {ErrorBody("service unavailable"), ErrorBody(""), TextBody("Bad Gateway"),
                 TextBody(""), JsonOther}}
    \cup {[status |-> 304, body |-> TextBody("")]}

\* the bytes of a body, string(body)
RawText(body) ==
    CASE body.kind = "error" -> "{\"error\":\"" \o body.error \o "\"}"
      [] body.kind = "text" -> body.text
      [] body.kind = "json_other" -> "{\"message\":\"not found\"}"
      [] body.kind = "temperature" -> "{\"city\":...}"
      [] OTHER -> ""

\* json.Unmarshal(body, &errResp); errResp.Error
JsonErrorField(body) == IF body.kind = "error" THEN body.error ELSE ""

\* json.Unmarshal(body, &temperature): an error unless the body is a JSON
\* object; fields the object lacks keep their zero value
UnmarshalTemperature(body) ==
    CASE body.kind = "temperature" ->
            [err |-> FALSE,
             val |-> [city |-> body.city, TempC |-> body.temp_C,
                      TempF |-> body.temp_F, TempK |-> body.temp_K]]
      [] body.kind \in {"error", "json_other"} -> [err |-> FALSE, val |-> ZeroTemperature]
      [] OTHER -> [err |-> TRUE, val |-> ZeroTemperature]

(***************************************************************************)
(* State.  Each request r is one client's HTTP request and everything the  *)
(* two services do for it; each handler runs in a goroutine of its own.    *)
(***************************************************************************)
Requests == {1, 2}

VARIABLES
    fused,         \* the build fuses x*y + z into one rounding (arm64, GOAMD64=v3)
    serviceBURLOk, \* http.NewRequestWithContext accepts SERVICE_B_URL + "/" + cep
    reqIn,         \* the request each client sends
    aPc,           \* ValidateAndProcessCep: idle, waiting (in client.Do), rejected, done
    aCep,          \* data.Cep
    callsB,        \* calls issued to ServiceB
    hop,           \* what client.Do and io.ReadAll gave callServiceB
    aOut,          \* the responses written to the client of ServiceA
    bPc,           \* HandlerCep: idle, directory, weather (in client.Do), rejected, done
    bCep,          \* chi.URLParam(r, "cep")
    bTime,         \* seconds since the request was first served, at HandlerCep's last step
    dirCalls,      \* calls issued to the directory API
    dirGot,        \* what the directory call gave CepAwesomeapi
    weatherCalls,  \* calls issued to the weather API
    weatherGot,    \* what the weather call gave WeatherApi
    bOut           \* the responses written by ServiceB

build == <<fused, serviceBURLOk, reqIn>>
aVars == <<aPc, aCep, callsB, hop, aOut>>
bVars == <<bPc, bCep, bTime, dirCalls, dirGot, weatherCalls, weatherGot, bOut>>
vars == <<build, aVars, bVars>>

InitWith(load) ==
    /\ fused \in BOOLEAN
    /\ serviceBURLOk \in BOOLEAN
    /\ reqIn \in load
    /\ aPc = [r \in Requests |-> "idle"]
    /\ aCep = [r \in Requests |-> <<>>]
    /\ callsB = [r \in Requests |-> 0]
    /\ hop = [r \in Requests |-> NoOutcome]
    /\ aOut = [r \in Requests |-> <<>>]
    /\ bPc = [r \in Requests |-> "idle"]
    /\ bCep = [r \in Requests |-> <<>>]
    /\ bTime = [r \in Requests |-> 0]
    /\ dirCalls = [r \in Requests |-> 0]
    /\ dirGot = [r \in Requests |-> NoOutcome]
    /\ weatherCalls = [r \in Requests |-> 0]
    /\ weatherGot = [r \in Requests |-> NoOutcome]
    /\ bOut = [r \in Requests |-> <<>>]

\* one client, any request
SingleLoad ==
    {[r \in Requests |-> IF r = 1 THEN q ELSE NoRequest]
        : q \in EdgeRequests \cup DirectRequests}

\* two clients of ServiceA at once, each with a valid CEP
PairCeps == {Zeros(CepDigits), [Zeros(CepDigits) EXCEPT ![CepDigits] = 57]}
PairLoad ==
    [Requests -> {[entry |-> "edge", body |-> [kind |-> "object", cep |-> s], path |-> <<>>]
                    : s \in PairCeps}]

Init == InitWith(SingleLoad)
PairInit == InitWith(PairLoad) /\ serviceBURLOk

(***************************************************************************)
(* ServiceA                                                                *)
(***************************************************************************)
\* callServiceB after client.Do and io.ReadAll, without the fallback to string(body)
callServiceBResult_NoFallback(resp) ==
    IF resp.status # 200
    THEN [temperature |-> ZeroTemperature, statusCode |-> resp.status, failed |-> TRUE,
          err |-> JsonErrorField(resp.body)]
    ELSE LET t == UnmarshalTemperature(resp.body)
         IN  IF t.err
             THEN [temperature |-> ZeroTemperature, statusCode |-> 500, failed |-> TRUE,
                   err |-> "failed to parse response: invalid JSON"]
             ELSE [temperature |-> t.val, statusCode |-> 200, failed |-> FALSE, err |-> ""]

\* callServiceB after client.Do and io.ReadAll: (temperature, statusCode, err)
callServiceBResult(resp) ==
    IF resp.status # 200
    THEN LET errMsg == JsonErrorField(resp.body)
         IN  [temperature |-> ZeroTemperature, statusCode |-> resp.status, failed |-> TRUE,
              err |-> IF errMsg = "" THEN RawText(resp.body) ELSE errMsg]
    ELSE LET t == UnmarshalTemperature(resp.body)
         IN  IF t.err
             THEN [temperature |-> ZeroTemperature, statusCode |-> 500, failed |-> TRUE,
                   err |-> "failed to parse response: invalid JSON"]
             ELSE [temperature |-> t.val, statusCode |-> 200, failed |-> FALSE, err |-> ""]

\* callServiceB when client.Do fails
callServiceBError(cause) ==
    [temperature |-> ZeroTemperature, statusCode |-> 500, failed |-> TRUE,
     err |-> "failed to call ServiceB: " \o cause]

\* ValidateAndProcessCep from the return of callServiceB to its end
WriteResult(res) ==
    IF res.failed
    THEN Respond(res.statusCode, ErrorBody(res.err))
    ELSE Respond(200, TemperatureBody(res.temperature))

\* ValidateAndProcessCep up to client.Do in callServiceB
ValidateAndProcessCep(r) ==
    /\ reqIn[r].entry = "edge"
    /\ aPc[r] = "idle"
    /\ LET data == Decode(reqIn[r].body)
       IN  IF data.err \/ ~validCepRegexA(data.Cep)
           THEN /\ aOut' = [aOut EXCEPT ![r] = Append(@, InvalidZipcode)]
                /\ aPc' = [aPc EXCEPT ![r] = "rejected"]
                /\ UNCHANGED <<aCep, callsB>>
           ELSE IF ~serviceBURLOk
           THEN /\ aOut' = [aOut EXCEPT ![r] =
                              Append(@, Respond(500, ErrorBody("failed to create request: parse error")))]
                /\ aPc' = [aPc EXCEPT ![r] = "done"]
                /\ aCep' = [aCep EXCEPT ![r] = data.Cep]
                /\ UNCHANGED callsB
           ELSE /\ aCep' = [aCep EXCEPT ![r] = data.Cep]
                /\ callsB' = [callsB EXCEPT ![r] = @ + 1]
                /\ aPc' = [aPc EXCEPT ![r] = "waiting"]
                /\ UNCHANGED aOut
    /\ UNCHANGED <<build, hop, bVars>>

\* the rest of ValidateAndProcessCep once client.Do has returned `got`
Finish(r, got, res) ==
    /\ hop' = [hop EXCEPT ![r] = got]
    /\ aOut' = [aOut EXCEPT ![r] = Append(@, WriteResult(res))]
    /\ aPc' = [aPc EXCEPT ![r] = "done"]
    /\ UNCHANGED <<build, aCep, callsB, bVars>>

\* client.Do returns the response HandlerCep wrote
callServiceBReturns(r) ==
    /\ aPc[r] = "waiting"
    /\ bPc[r] \in {"rejected", "done"}
    /\ LET resp == bOut[r][Len(bOut[r])]
       IN  Finish(r, [kind |-> "response", status |-> resp.status, body |-> resp.body],
                  callServiceBResult(resp))

\* an http.Client without a Timeout
ClientTimeoutNever(r) == FALSE

\* http.Client{Timeout: 10 * time.Second}: HandlerCep is still at work when
\* the client's deadline passes
ClientTimeoutFires(r) == aPc[r] = "waiting" /\ bPc[r] \in {"directory", "weather"}

callServiceBTimeout(r) ==
    /\ ClientTimeoutFires(r)
    /\ Finish(r, [kind |-> "error", cause |-> "timeout"],
              callServiceBError("context deadline exceeded"))

\* client.Do fails before ServiceB has the request (connection refused, DNS)
callServiceBUnreachable(r) ==
    /\ aPc[r] = "waiting"
    /\ bPc[r] = "idle"
    /\ Finish(r, [kind |-> "error", cause |-> "transport"],
              callServiceBError("connection refused"))

\* SERVICE_B_URL is answered by something other than HandlerCep
PeerResponds(r) ==
    /\ aPc[r] = "waiting"
    /\ bPc[r] = "idle"
    /\ \E resp \in PeerResponses :
          Finish(r, [kind |-> "response", status |-> resp.status, body |-> resp.body],
                 callServiceBResult(resp))

(***************************************************************************)
(* ServiceB                                                                *)
(***************************************************************************)
\* The request of ServiceA reaches ServiceB the instant it is sent, and the
\* deadline of ServiceA's client, set first, comes before anything ServiceB
\* does in the same second: while ServiceA waits, a step of HandlerCep at
\* instant t has t < 10, and after its timeout t >= 10.
InTime(r, t) ==
    reqIn[r].entry = "edge" =>
        IF hop[r].kind = "none" THEN t < ClientTimeoutA
        ELSE (hop[r].kind = "error" /\ hop[r].cause = "timeout") => t >= ClientTimeoutA

\* how long a call lasts: its latency, or the client's timeout
Elapsed(outcome, latency, timeout) ==
    IF outcome.kind = "error" /\ outcome.cause = "timeout" THEN timeout ELSE latency

\* CepAwesomeapi after client.Do: an error, or the parsed response
CepAwesomeapi_NoEchoCheck(got) ==
    IF got.kind = "error" THEN [err |-> TRUE, val |-> DirNotFound]
    ELSE IF got.status # 200 THEN [err |-> TRUE, val |-> DirNotFound]
    ELSE IF ~got.body.json THEN [err |-> TRUE, val |-> DirNotFound]
    ELSE [err |-> FALSE, val |-> got.body]

CepAwesomeapi(got) ==
    IF got.kind = "error" THEN [err |-> TRUE, val |-> DirNotFound]
    ELSE IF got.status = 404 THEN [err |-> TRUE, val |-> DirNotFound]
    ELSE IF got.status # 200 THEN [err |-> TRUE, val |-> DirNotFound]
    ELSE IF ~got.body.json THEN [err |-> TRUE, val |-> DirNotFound]
    ELSE IF got.body.cep = "" THEN [err |-> TRUE, val |-> DirNotFound]
    ELSE [err |-> FALSE, val |-> got.body]

\* WeatherApi after client.Do: an error, or current.temperature_2m as a float64
WeatherApi(got) ==
    IF got.kind = "error" THEN [err |-> TRUE, val |-> FZero]
    ELSE IF got.status # 200 THEN [err |-> TRUE, val |-> FZero]
    ELSE IF ~got.body.json THEN [err |-> TRUE, val |-> FZero]
    ELSE [err |-> FALSE,
          val |-> IF got.body.current THEN FromRatio(got.body.t10, 10) ELSE FZero]

\* tempC*1.8 + 32
TempF(tempC) ==
    IF fused THEN FMA(tempC, FromRatio(18, 10), FromRatio(32, 1))
    ELSE FAdd(FMul(tempC, FromRatio(18, 10)), FromRatio(32, 1))

\* tempC + 273.15
TempK(tempC) == FAdd(tempC, FromRatio(27315, 100))

\* the Temperature HandlerCep builds
Result(cepResponse, tempC) ==
    [city |-> cepResponse.city, TempC |-> tempC, TempF |-> TempF(tempC), TempK |-> TempK(tempC)]

BRespond(r, resp, pc) ==
    /\ bOut' = [bOut EXCEPT ![r] = Append(@, resp)]
    /\ bPc' = [bPc EXCEPT ![r] = pc]
    /\ bTime' = [bTime EXCEPT ![r] = 0]

\* HandlerCep up to client.Do in CepAwesomeapi
HandlerCep(r) ==
    /\ bPc[r] = "idle"
    /\ \/ reqIn[r].entry = "direct"
       \/ reqIn[r].entry = "edge" /\ aPc[r] = "waiting"
    /\ LET cep == IF reqIn[r].entry = "direct" THEN reqIn[r].path ELSE aCep[r]
       IN  /\ bCep' = [bCep EXCEPT ![r] = cep]
           /\ IF cep = <<>> \/ ~validCepRegexB(cep)
              THEN /\ BRespond(r, InvalidZipcode, "rejected")
                   /\ UNCHANGED dirCalls
              ELSE /\ dirCalls' = [dirCalls EXCEPT ![r] = @ + 1]
                   /\ bPc' = [bPc EXCEPT ![r] = "directory"]
                   /\ UNCHANGED <<bOut, bTime>>
    /\ UNCHANGED <<build, aVars, dirGot, weatherCalls, weatherGot>>

\* HandlerCep from the return of CepAwesomeapi, calling the directory a second
\* time when the first call fails
AfterDirectory_Retry(r, got, t) ==
    /\ dirGot' = [dirGot EXCEPT ![r] = got]
    /\ LET cepResponse == CepAwesomeapi(got)
       IN  IF cepResponse.err /\ dirCalls[r] < 2
           THEN /\ dirCalls' = [dirCalls EXCEPT ![r] = @ + 1]
                /\ bTime' = [bTime EXCEPT ![r] = 0]
                /\ UNCHANGED <<weatherCalls, weatherGot, bPc, bOut>>
           ELSE IF cepResponse.err
           THEN /\ BRespond(r, ZipcodeNotFound, "done")
                /\ UNCHANGED <<weatherCalls, weatherGot, dirCalls>>
           ELSE IF ParseFloatErr(cepResponse.val.lat) \/ ParseFloatErr(cepResponse.val.lng)
           THEN /\ weatherGot' = [weatherGot EXCEPT ![r] = [kind |-> "error", cause |-> "coordinates"]]
                /\ BRespond(r, ZipcodeNotFound, "done")
                /\ UNCHANGED <<weatherCalls, dirCalls>>
           ELSE /\ weatherCalls' = [weatherCalls EXCEPT ![r] = @ + 1]
                /\ bPc' = [bPc EXCEPT ![r] = "weather"]
                /\ bTime' = [bTime EXCEPT ![r] = t]
                /\ UNCHANGED <<weatherGot, bOut, dirCalls>>
    /\ UNCHANGED <<build, aVars, bCep>>

\* HandlerCep from the return of CepAwesomeapi: 404, or on to WeatherApi, which
\* parses the coordinates and then issues its call
AfterDirectory(r, got, t) ==
    /\ dirGot' = [dirGot EXCEPT ![r] = got]
    /\ LET cepResponse == CepAwesomeapi(got)
       IN  IF cepResponse.err
           THEN /\ BRespond(r, ZipcodeNotFound, "done")
                /\ UNCHANGED <<weatherCalls, weatherGot>>
           ELSE IF ParseFloatErr(cepResponse.val.lat) \/ ParseFloatErr(cepResponse.val.lng)
           THEN /\ weatherGot' = [weatherGot EXCEPT ![r] = [kind |-> "error", cause |-> "coordinates"]]
                /\ BRespond(r, ZipcodeNotFound, "done")
                /\ UNCHANGED weatherCalls
           ELSE /\ weatherCalls' = [weatherCalls EXCEPT ![r] = @ + 1]
                /\ bPc' = [bPc EXCEPT ![r] = "weather"]
                /\ bTime' = [bTime EXCEPT ![r] = t]
                /\ UNCHANGED <<weatherGot, bOut>>
    /\ UNCHANGED <<build, aVars, bCep, dirCalls>>

\* the directory call ends: an answer, a transport error, or its timeout
CepAwesomeapiReturns(r) ==
    /\ bPc[r] = "directory"
    /\ \E got \in DirOutcomes, latency \in Latencies :
          LET t == bTime[r] + Elapsed(got, latency, ClientTimeoutCep)
          IN  InTime(r, t) /\ AfterDirectory(r, got, t)

\* the first request with this CEP whose directory lookup succeeded: a lookup
\* cache keyed by CEP
CachedLookup(r) ==
    LET hits == {q \in Requests : bCep[q] = bCep[r] /\ dirGot[q].kind # "none"
                                  /\ ~CepAwesomeapi(dirGot[q]).err}
    IN  CHOOSE q \in hits : \A p \in hits : q <= p

\* HandlerCep from the return of WeatherApi, taking the city from the cache
AfterWeather_Cached(r, got) ==
    /\ weatherGot' = [weatherGot EXCEPT ![r] = got]
    /\ LET weatherResponse == WeatherApi(got)
           cepResponse == CepAwesomeapi(dirGot[CachedLookup(r)]).val
       IN  IF weatherResponse.err
           THEN BRespond(r, ZipcodeNotFound, "done")
           ELSE BRespond(r, Respond(200, TemperatureBody(Result(cepResponse, weatherResponse.val))),
                         "done")
    /\ UNCHANGED <<build, aVars, bCep, dirCalls, dirGot, weatherCalls>>

\* HandlerCep from the return of WeatherApi to its end
AfterWeather(r, got) ==
    /\ weatherGot' = [weatherGot EXCEPT ![r] = got]
    /\ LET weatherResponse == WeatherApi(got)
           cepResponse == CepAwesomeapi(dirGot[r]).val
       IN  IF weatherResponse.err
           THEN BRespond(r, ZipcodeNotFound, "done")
           ELSE BRespond(r, Respond(200, TemperatureBody(Result(cepResponse, weatherResponse.val))),
                         "done")
    /\ UNCHANGED <<build, aVars, bCep, dirCalls, dirGot, weatherCalls>>

\* the weather call ends
WeatherApiReturns(r) ==
    /\ bPc[r] = "weather"
    /\ \E got \in WeatherOutcomes, latency \in Latencies :
          /\ InTime(r, bTime[r] + Elapsed(got, latency, ClientTimeoutWeather))
          /\ AfterWeather(r, got)

\* r.Context() is cancelled once ServiceA's client has given up and closed the
\* connection: the call in flight returns "context canceled"
RequestCancelled(r) ==
    /\ reqIn[r].entry = "edge"
    /\ hop[r].kind = "error" /\ hop[r].cause = "timeout"
    /\ \/ bPc[r] = "directory" /\ AfterDirectory(r, [kind |-> "error", cause |-> "canceled"], 0)
       \/ bPc[r] = "weather" /\ AfterWeather(r, [kind |-> "error", cause |-> "canceled"])

(***************************************************************************)
(* Specifications                                                          *)
(***************************************************************************)
Next ==
    \E r \in Requests :
        \/ ValidateAndProcessCep(r)
        \/ callServiceBReturns(r)
        \/ callServiceBTimeout(r)
        \/ callServiceBUnreachable(r)
        \/ PeerResponds(r)
        \/ HandlerCep(r)
        \/ CepAwesomeapiReturns(r)
        \/ WeatherApiReturns(r)
        \/ RequestCancelled(r)

Spec == Init /\ [][Next]_vars

PairSpec == PairInit /\ [][Next]_vars

\* client.Do returns: with an answer, with an error, or at the client's timeout
ClientDoReturns(r) ==
    \/ callServiceBReturns(r)
    \/ callServiceBTimeout(r)
    \/ callServiceBUnreachable(r)
    \/ PeerResponds(r)

LiveSpec == Spec /\ \A r \in Requests : WF_vars(ValidateAndProcessCep(r)) /\ WF_vars(ClientDoReturns(r))

(***************************************************************************)
(* Properties                                                              *)
(***************************************************************************)
EightAsciiDigits(s) == Len(s) = 8 /\ \A i \in 1..Len(s) : s[i] \in 48..57

\* the CEP string a request carries
ClientCep(r) == IF reqIn[r].entry = "direct" THEN reqIn[r].path ELSE reqIn[r].body.cep

Status422 == [status |-> 422, body |-> [kind |-> "error", error |-> "invalid zipcode"]]
Status404 == [status |-> 404, body |-> [kind |-> "error", error |-> "can not find zipcode"]]

DirAnswered(r) == dirGot[r].kind # "none"
DirFailed(r) ==
    \/ dirGot[r].kind = "error"
    \/ dirGot[r].kind = "response"
       /\ (dirGot[r].status # 200 \/ ~dirGot[r].body.json \/ dirGot[r].body.cep = "")
DirSucceeded(r) == DirAnswered(r) /\ ~DirFailed(r)

WeatherAnswered(r) == weatherGot[r].kind # "none"
WeatherFailed(r) ==
    \/ weatherGot[r].kind = "error"
    \/ weatherGot[r].kind = "response" /\ (weatherGot[r].status # 200 \/ ~weatherGot[r].body.json)
WeatherSucceeded(r) == WeatherAnswered(r) /\ ~WeatherFailed(r)

\* C1: at both stages a CEP string passes validation exactly when it is 8
\* ASCII digits; any other string is answered 422 {"error":"invalid zipcode"}.
C1_Validation ==
    \A r \in Requests :
        /\ (reqIn[r].entry = "edge" /\ aPc[r] # "idle"
            /\ reqIn[r].body.kind \in {"object", "no_cep"}) =>
              /\ (aPc[r] # "rejected") <=> EightAsciiDigits(reqIn[r].body.cep)
              /\ ~EightAsciiDigits(reqIn[r].body.cep) => aOut[r] = <<Status422>>
        /\ bPc[r] # "idle" =>
              /\ (bPc[r] # "rejected") <=> EightAsciiDigits(ClientCep(r))
              /\ ~EightAsciiDigits(ClientCep(r)) => bOut[r] = <<Status422>>

\* C1 witness: ServiceB has rejected nine digits, one digit too many
C1_Witness ==
    \E r \in Requests :
        reqIn[r].entry = "direct" /\ reqIn[r].path = Zeros(9) /\ bPc[r] = "rejected"

\* C2: a call to ServiceB is issued only for a decoded body whose CEP passed
\* validation, a directory or weather call only for a CEP that passed
\* ServiceB's validation, and a rejected request has made no call at all.
C2_NoCallBeforeValidation ==
    \A r \in Requests :
        /\ callsB[r] > 0 =>
              /\ reqIn[r].entry = "edge" /\ reqIn[r].body.kind = "object"
              /\ EightAsciiDigits(reqIn[r].body.cep)
        /\ (dirCalls[r] > 0 \/ weatherCalls[r] > 0) => EightAsciiDigits(ClientCep(r))
        /\ aPc[r] = "rejected" => callsB[r] = 0 /\ dirCalls[r] = 0 /\ weatherCalls[r] = 0
        /\ bPc[r] = "rejected" => dirCalls[r] = 0 /\ weatherCalls[r] = 0

\* C2 witness: a body that does not decode was rejected with no call made
C2_Witness ==
    \E r \in Requests :
        reqIn[r].body.kind = "malformed" /\ aPc[r] = "rejected" /\ callsB[r] = 0

\* C3: when the directory lookup fails in any way, ServiceB answers exactly
\* 404 {"error":"can not find zipcode"} and WeatherApi is never called; when
\* ServiceA receives that answer it relays exactly the same.
C3_DirectoryFailure ==
    \A r \in Requests :
        (DirAnswered(r) /\ DirFailed(r)) =>
            /\ bOut[r] = <<Status404>>
            /\ weatherCalls[r] = 0
            /\ ~WeatherAnswered(r)
            /\ (aPc[r] = "done" /\ hop[r].kind = "response") => aOut[r] = <<Status404>>

\* C3 witness: the directory answered 200 with an empty CEP echo
C3_Witness ==
    \E r \in Requests :
        /\ dirGot[r] = [kind |-> "response", status |-> 200, body |-> DirNotFound]
        /\ bPc[r] = "done"

\* C4 (as claimed): when the directory lookup succeeds and the weather lookup
\* fails in any way, the client of ServiceA is answered 404
\* {"error":"can not find zipcode"}.
C4_Original ==
    \A r \in Requests :
        (reqIn[r].entry = "edge" /\ aPc[r] = "done" /\ DirSucceeded(r) /\ WeatherFailed(r)) =>
            aOut[r] = <<Status404>>

\* C5 (as claimed): on success ServiceB answers 200 with the directory's city,
\* temp_C = c, temp_F = c*1.8+32 and temp_K = c+273.15 as decimal numbers
\* (c = 28.5 gives 83.3 and 301.65).
C5_Original ==
    \A r \in Requests :
        (bPc[r] = "done" /\ DirSucceeded(r) /\ WeatherSucceeded(r)) =>
            LET c10 == IF weatherGot[r].body.current THEN weatherGot[r].body.t10 ELSE 0
            IN  bOut[r] = <<[status |-> 200,
                             body |-> [kind |-> "temperature",
                                       city |-> dirGot[r].body.city,
                                       temp_C |-> FromRatio(c10, 10),
                                       temp_F |-> FromRatio(18 * c10 + 3200, 100),
                                       temp_K |-> FromRatio(10 * c10 + 27315, 100)]]>>

C7_OneResponse ==
    \A r \in Requests :
        /\ [](Len(aOut[r]) <= 1)
        /\ [](aPc[r] # "idle" => <>(Len(aOut[r]) = 1))

\* C7 witness: the call to ServiceB was cut off by the timeout and the client
\* has its one response
C7_Witness ==
    \E r \in Requests :
        /\ hop[r] = [kind |-> "error", cause |-> "timeout"]
        /\ bPc[r] \in {"directory", "weather"}
        /\ Len(aOut[r]) = 1

\* what ServiceB answers from a request's own directory and weather outcomes
OwnResolution(r) ==
    IF CepAwesomeapi(dirGot[r]).err \/ WeatherApi(weatherGot[r]).err THEN ZipcodeNotFound
    ELSE Respond(200, TemperatureBody(Result(CepAwesomeapi(dirGot[r]).val,
                                             WeatherApi(weatherGot[r]).val)))

\* what ServiceA answers from what this request's own calls were given
OwnAnswer(r) ==
    IF hop[r].kind = "error"
    THEN [status |-> 500,
          body |-> [kind |-> "error",
                    error |-> IF hop[r].cause = "timeout"
                              THEN "failed to call ServiceB: context deadline exceeded"
                              ELSE "failed to call ServiceB: connection refused"]]
    ELSE IF bPc[r] = "idle" THEN WriteResult(callServiceBResult(hop[r]))
    ELSE WriteResult(callServiceBResult(OwnResolution(r)))

\* what the calls made for a request were given
UpstreamView(r) ==
    <<dirGot[r], weatherGot[r],
      IF hop[r].kind = "response" /\ bPc[r] # "idle" THEN [kind |-> "served"] ELSE hop[r]>>

\* C8: a request's response is determined by its own CEP and by what its own
\* calls were given, so two requests with the same CEP and the same upstream
\* responses have the same response, however they interleave.
C8_Idempotent ==
    /\ \A r \in Requests : aPc[r] = "done" => aOut[r] = <<OwnAnswer(r)>>
    /\ \A r1, r2 \in Requests :
          (/\ aPc[r1] = "done" /\ aPc[r2] = "done"
           /\ ClientCep(r1) = ClientCep(r2)
           /\ UpstreamView(r1) = UpstreamView(r2)) => aOut[r1] = aOut[r2]

\* C8 witness: two requests with the same CEP and the same upstream answers
\* were both answered 200
C8_Witness ==
    /\ ClientCep(1) = ClientCep(2)
    /\ UpstreamView(1) = UpstreamView(2)
    /\ aPc[1] = "done" /\ aPc[2] = "done"
    /\ WeatherSucceeded(1)
    /\ aOut[1][1].status = 200

CallFailed(r) ==
    \/ hop[r].kind = "error"
    \/ hop[r].kind = "response" /\ hop[r].status # 200
    \/ DirAnswered(r) /\ DirFailed(r)
    \/ WeatherFailed(r)

\* C9: per request at most one call to ServiceB, one to the directory and one
\* to the weather API, the weather call only after the directory call has
\* ended, and no call at all once one of them has failed.
C9_NoRetries ==
    /\ [](\A r \in Requests :
            /\ callsB[r] <= 1 /\ dirCalls[r] <= 1 /\ weatherCalls[r] <= 1
            /\ weatherCalls[r] > 0 => DirAnswered(r))
    /\ [][\A r \in Requests :
            CallFailed(r) =>
                /\ callsB'[r] = callsB[r]
                /\ dirCalls'[r] = dirCalls[r]
                /\ weatherCalls'[r] = weatherCalls[r]]_vars

\* C9 witness: the directory call timed out after ServiceA had given up, and
\* no weather call followed
C9_Witness ==
    \E r \in Requests :
        /\ hop[r] = [kind |-> "error", cause |-> "timeout"]
        /\ dirGot[r] = [kind |-> "error", cause |-> "timeout"]
        /\ bPc[r] = "done"
        /\ callsB[r] = 1 /\ dirCalls[r] = 1 /\ weatherCalls[r] = 0

\* C10 (as claimed): when the directory and the weather API both answer
\* successfully within their own 10 seconds, the client of ServiceA is
\* answered 200 with the Temperature ServiceB built, never 500.
C10_Original ==
    \A r \in Requests :
        (reqIn[r].entry = "edge" /\ aPc[r] = "done" /\ bPc[r] = "done"
         /\ DirSucceeded(r) /\ WeatherSucceeded(r)) =>
            aOut[r] = bOut[r]
=============================================================================
